---------------------------- MODULE Spec2Model ----------------------------
(***************************************************************************)
(* LAMC-TNN imputer (src/imputer/LAMC-TNN.ipynb): the outer ADMM loop of   *)
(* imputer, the lag operators of generate_Psi, the spectrum handling of    *)
(* svt_tnn and the unfold/fold pair ten2mat / mat2ten.                     *)
(*                                                                         *)
(* Matrices are functions from positions <<row, col>> (0-based, as in the  *)
(* source) to values.  The results of the floating-point kernels           *)
(* (np.linalg.svd, spsolve, pinv) are not computed: every matrix over Vals *)
(* is a possible result, which over-approximates the code.                 *)
(***************************************************************************)
EXTENDS Integers, Sequences, FiniteSets, TLC

VARIABLES
    pc,           \* position of imputer in its body
    sparse_mat,   \* the caller's observed matrix S
    pos_missing,  \* the caller's missing set M
    time_lags,    \* the caller's lags
    maxiter, epsilon, K,
    Z,            \* working matrix; entries are <<num, den>> (den = 0: NaN)
    X,            \* low-rank estimate of the last svt_tnn call
    Xat,          \* <<it, k>> of the sub-iteration that wrote X last
    last_mat,     \* X of the previous outer iteration
    T,            \* dual variable, as the number of updates applied to zeros
    A,            \* coefficients, as the number of re-estimations (0: random)
    B,            \* the A the current B_m were built from (-1: never built)
    rho,          \* the exponent e of rho = 1e5 * 1.05^e
    it, k, tol,
    state,        \* RUNNING, CONVERGED or MAX_ITER_REACHED
    err,          \* the exception that ended the run, or "none"
    ret,          \* the returned matrix
    dense_mat,    \* the caller's reference matrix
    rho0,         \* the caller's initial penalty, as an exponent like rho
    Zbuf,         \* the buffer the name Z is bound to
    lastbuf,      \* the buffer the name last_mat is bound to
    steps,        \* the steps of the current outer iteration, in order
    psi_pc, psi_in, psi_out, psi_dense,   \* a call of generate_Psi
    svt_pc, svt_in, svt_out, svt_out2,    \* two calls of svt_tnn
    ten_pc, ten_in, ten_mat, ten_out      \* ten2mat, then mat2ten

ivars == <<pc, sparse_mat, pos_missing, time_lags, maxiter, epsilon, K, Z, X,
           Xat, last_mat, T, A, B, rho, it, k, tol, state, err, ret,
           dense_mat, rho0, Zbuf, lastbuf, steps>>
psivars == <<psi_pc, psi_in, psi_out, psi_dense>>
svtvars == <<svt_pc, svt_in, svt_out, svt_out2>>
tenvars == <<ten_pc, ten_in, ten_mat, ten_out>>
vars == <<ivars, psivars, svtvars, tenvars>>

----------------------------------------------------------------------------
(* Bounds of the model. *)
MaxIter == 2      \* maxiter ranges over 0..MaxIter
MaxK == 2         \* K ranges over 1..MaxK
MaxEps == 1       \* epsilon ranges over 0..MaxEps
MaxLag == 3       \* lags range over 1..MaxLag
MaxD == 1         \* number of lags of an imputer run
MaxLags == 2      \* number of lags of a generate_Psi call
MaxT == 5         \* dim_time of a generate_Psi call ranges over 1..MaxT
MaxDim == 5       \* svt_tnn: m and n range over 1..MaxDim
MaxS == 3         \* svt_tnn: singular values range over 0..MaxS
MaxTau == 3       \* svt_tnn: tau ranges over 1..MaxTau
MaxTheta == 3     \* svt_tnn: theta ranges over 0..MaxTheta
MaxOrder == 3     \* ten2mat: tensors of order 1..MaxOrder
MaxAxis == 3      \* ten2mat: every axis has length 1..MaxAxis

(* The shape of the observed matrix, np.array(sparse_mat.shape). *)
dim == <<1, 2>>
Pos == (0 .. dim[1] - 1) \X (0 .. dim[2] - 1)
Vals == {0, 1}
Mats == [Pos -> Vals]

(* rho is kept as the exponent e of rho = 1e5 * 1.05^e, so the cap 1e5 is   *)
(* e = 0 and min(rho * 1.05, 1e5) is min(e + 1, 0).                          *)
Rho0s == {-3, 1}

----------------------------------------------------------------------------
(* Arithmetic helpers. *)
RECURSIVE SumOver(_, _)
SumOver(f, S) ==
    IF S = {} THEN 0
    ELSE LET p == CHOOSE q \in S : TRUE IN f[p] + SumOver(f, S \ {p})

RECURSIVE SeqMax(_)
SeqMax(s) ==
    IF Len(s) = 1 THEN s[1]
    ELSE LET m == SeqMax(Tail(s)) IN IF s[1] > m THEN s[1] ELSE m

NaN == <<0, 0>>
Val(v) == <<v, 1>>
(* equality of two <<num, den>> values as floating point has it *)
SameVal(a, b) == a[2] # 0 /\ b[2] # 0 /\ a[1] * b[2] = b[1] * a[2]

(* np.mean(sparse_mat[sparse_mat != 0]) *)
MeanNonzero(S) ==
    LET nz == {p \in Pos : S[p] # 0}
    IN  <<SumOver(S, nz), Cardinality(nz)>>

(* np.linalg.norm(X - last_mat, 'fro') / snorm, kept as the pair            *)
(* <<sum of squared differences, sum of squares of S>>: tol^2 = num / den. *)
TolOf(Xm, Lm, S) ==
    <<SumOver([p \in Pos |-> (Xm[p] - Lm[p]) * (Xm[p] - Lm[p])], Pos),
      SumOver([p \in Pos |-> S[p] * S[p]], Pos)>>

(* tol < epsilon: false for nan and inf (den = 0) and for epsilon <= 0 *)
TolLess(t, eps) == t[2] > 0 /\ eps > 0 /\ t[1] < eps * eps * t[2]
(* tol != 0: true for nan and inf *)
TolNonzero(t) == ~(t[1] = 0 /\ t[2] > 0)

(* RhoNext without the cap *)
RhoNextNoCap(e) == e + 1

(* rho = min(rho * 1.05, 1e5) *)
RhoNext(e) == IF e + 1 < 0 THEN e + 1 ELSE 0

----------------------------------------------------------------------------
(* generate_Psi, lines 123-135.  A coo_matrix is kept as its shape and its  *)
(* row, col and data arrays; operator number i of the source is Psis[i+1]. *)
ARange(n) == [j \in 1 .. n |-> j - 1]

(* scipy rejects an index outside the shape *)
CooValid(shape, row, col) ==
    /\ \A j \in 1 .. Len(row) : row[j] >= 0 /\ row[j] < shape[1]
    /\ \A j \in 1 .. Len(col) : col[j] >= 0 /\ col[j] < shape[2]

(* PsiCol with the shift of Psi_0 by max_lag left out *)
PsiColNoShift(i, n, max_lag, lags) ==
    IF i = 0 THEN [j \in 1 .. n |-> ARange(n)[j]]
    ELSE [j \in 1 .. n |-> ARange(n)[j] + max_lag - lags[i]]

PsiCol(i, n, max_lag, lags) ==
    IF i = 0 THEN [j \in 1 .. n |-> ARange(n)[j] + max_lag]
    ELSE [j \in 1 .. n |-> ARange(n)[j] + max_lag - lags[i]]

GeneratePsi(dim_time, lags) ==
    LET max_lag == SeqMax(lags)
        n == dim_time - max_lag
        shape == <<n, dim_time>>
    IN  IF n < 0   \* np.ones(n): negative dimensions are not allowed
        THEN [err |-> "ValueError", Psis |-> <<>>]
        ELSE IF \E i \in 0 .. Len(lags) :
                   ~CooValid(shape, ARange(n), PsiCol(i, n, max_lag, lags))
        THEN [err |-> "ValueError", Psis |-> <<>>]
        ELSE [err |-> "none",
              Psis |-> [i1 \in 1 .. Len(lags) + 1 |->
                          [shape |-> shape,
                           row |-> ARange(n),
                           col |-> PsiCol(i1 - 1, n, max_lag, lags),
                           data |-> [j \in 1 .. n |-> 1]]]]

(* Psi.toarray(): entries at the same position add up *)
ToArray(P) ==
    [rc \in (0 .. P.shape[1] - 1) \X (0 .. P.shape[2] - 1) |->
        SumOver(P.data, {j \in 1 .. Len(P.data) :
                            P.row[j] = rc[1] /\ P.col[j] = rc[2]})]

LagSeqs(d, m) == UNION {[1 .. n -> 1 .. m] : n \in 1 .. d}

----------------------------------------------------------------------------
(* svt_tnn, lines 61-77.  A matrix is given by its shape and its singular   *)
(* values s (descending, min(m, n) of them); the result is given by the     *)
(* singular values it is reconstructed with, each a fraction <<num, den>>,  *)
(* and by the branches taken.                                               *)
Min(a, b) == IF a < b THEN a ELSE b

(* np.sum(s > tau) *)
CountAbove(s, tau) == Cardinality({j \in 1 .. Len(s) : s[j] > tau})

(* SvtDirect adding tau where it has to subtract it *)
SvtDirectPlus(s, tau, theta) ==
    LET idx == CountAbove(s, tau)
    IN  [j1 \in 1 .. idx |-> IF j1 > theta THEN <<s[j1] + tau, 1>>
                             ELSE <<s[j1], 1>>]

(* SvtDirect shrinking every kept value, theta ignored *)
SvtDirectShrinkAll(s, tau, theta) ==
    LET idx == CountAbove(s, tau)
    IN  [j1 \in 1 .. idx |-> <<s[j1] - tau, 1>>]

(* lines 73-77: vec = s[:idx]; vec[theta:idx] = s[theta:idx] - tau *)
SvtDirect(s, tau, theta) ==
    LET idx == CountAbove(s, tau)
    IN  [j1 \in 1 .. idx |-> IF j1 > theta THEN <<s[j1] - tau, 1>>
                             ELSE <<s[j1], 1>>]

(* the singular values of mat @ mat.T are the squares of those of mat *)
GramSpectrum(s) == [j \in 1 .. Len(s) |-> s[j] * s[j]]
(* np.sqrt on a perfect square *)
Sqrt(x) == CHOOSE r \in 0 .. x : r * r = x

(* SvtGram with s = np.sqrt(s) left out *)
SvtGramNoSqrt(s, tau, theta) ==
    LET sg == GramSpectrum(s)
        idx == CountAbove(sg, tau)
        mid == [j1 \in 1 .. idx |-> IF j1 <= theta THEN <<1, 1>>
                                    ELSE <<sg[j1] - tau, sg[j1]>>]
    IN  [j1 \in 1 .. idx |-> <<mid[j1][1] * s[j1], mid[j1][2]>>]

(* lines 64-70: mid[:theta] = 1; mid[theta:idx] = (s - tau) / s; the result *)
(* u diag(mid) u.T mat has the singular values mid_j * s_j                  *)
SvtGram(s, tau, theta) ==
    LET sg == [j \in 1 .. Len(s) |-> Sqrt(GramSpectrum(s)[j])]
        idx == CountAbove(sg, tau)
        mid == [j1 \in 1 .. idx |-> IF j1 <= theta THEN <<1, 1>>
                                    ELSE <<sg[j1] - tau, sg[j1]>>]
    IN  [j1 \in 1 .. idx |-> <<mid[j1][1] * s[j1], mid[j1][2]>>]

(* lines 62-77; transposing changes neither s nor the result's spectrum *)
RECURSIVE SvtTnn(_, _, _, _, _)
SvtTnn(m, n, s, tau, theta) ==
    IF 2 * m < n
    THEN [path |-> <<"gram">>, vals |-> SvtGram(s, tau, theta)]
    ELSE IF m > 2 * n
    THEN LET r == SvtTnn(n, m, s, tau, theta)
         IN  [path |-> <<"transpose">> \o r.path, vals |-> r.vals]
    ELSE [path |-> <<"direct">>, vals |-> SvtDirect(s, tau, theta)]

(* fractions with positive denominators *)
FracEq(a, b) == a[1] * b[2] = b[1] * a[2]
FracLe(a, b) == a[1] * b[2] <= b[1] * a[2]
RECURSIVE FracSum(_)
FracSum(q) ==
    IF Len(q) = 0 THEN <<0, 1>>
    ELSE LET r == FracSum(Tail(q))
         IN  <<q[1][1] * r[2] + r[1] * q[1][2], q[1][2] * r[2]>>

----------------------------------------------------------------------------
(* ten2mat and mat2ten, lines 43-52.  An ndarray is its shape and a function *)
(* from index tuples (0-based entries) to values.                            *)
RECURSIVE Prod(_)
Prod(q) == IF Len(q) = 0 THEN 1 ELSE q[1] * Prod(Tail(q))

Indices(shape) ==
    {i \in [1 .. Len(shape) -> 0 .. SeqMax(shape) - 1] :
        \A a \in 1 .. Len(shape) : i[a] < shape[a]}

(* position of an index tuple in Fortran order: the first axis runs fastest *)
FLin(i, shape) ==
    SumOver([a \in 1 .. Len(shape) |-> i[a] * Prod(SubSeq(shape, 1, a - 1))],
            1 .. Len(shape))
FUnlin(L, shape) ==
    [a \in 1 .. Len(shape) |-> (L \div Prod(SubSeq(shape, 1, a - 1))) % shape[a]]

(* np.reshape(arr, shape2, order = 'F') *)
ReshapeF(arr, shape2) ==
    [shape |-> shape2,
     at |-> [i2 \in Indices(shape2) |-> arr.at[FUnlin(FLin(i2, shape2), arr.shape)]]]

Axes(kk) == [a \in 1 .. kk |-> a - 1]

(* np.transpose(arr, order): axis a of the result is axis order[a] of arr *)
Transpose(arr, order) ==
    LET kk == Len(arr.shape)
        shape2 == [a \in 1 .. kk |-> arr.shape[order[a] + 1]]
        back(ax) == CHOOSE a \in 1 .. kk : order[a] = ax
    IN  [shape |-> shape2,
         at |-> [j \in Indices(shape2) |->
                   arr.at[[a1 \in 1 .. kk |-> j[back(a1 - 1)]]]]]

(* np.moveaxis(arr, src, dst) *)
MoveAxis(arr, src, dst) ==
    LET kk == Len(arr.shape)
        rest == SelectSeq(Axes(kk), LAMBDA ax : ax # src)
    IN  Transpose(arr, SubSeq(rest, 1, dst) \o <<src>> \o SubSeq(rest, dst + 1, kk - 1))

(* line 44; -1 is the size divided by tensor.shape[mode] *)
ten2mat(tensor, mode) ==
    ReshapeF(MoveAxis(tensor, mode, 0),
             <<tensor.shape[mode + 1], Prod(tensor.shape) \div tensor.shape[mode + 1]>>)

(* IndexList leaving the axes in their order, mode not put first *)
IndexListPlain(kk, mode) == Axes(kk)

(* lines 47-51: index = [mode] + [i for i in range(dim.shape[0]) if i != mode] *)
IndexList(kk, mode) == <<mode>> \o SelectSeq(Axes(kk), LAMBDA i : i # mode)

(* line 52 *)
mat2ten(mat, dimv, mode) ==
    LET index == IndexList(Len(dimv), mode)
    IN  MoveAxis(ReshapeF(mat, [a \in 1 .. Len(dimv) |-> dimv[index[a] + 1]]), 0, mode)

----------------------------------------------------------------------------
(* States of the calls that a specification does not run. *)
ImputerIdle ==
    /\ pc = "idle"
    /\ sparse_mat = [p \in Pos |-> 0]
    /\ pos_missing = {}
    /\ time_lags = <<1>>
    /\ maxiter = 0 /\ epsilon = 0 /\ K = 1
    /\ Z = [p \in Pos |-> NaN]
    /\ X = [p \in Pos |-> 0]
    /\ Xat = <<0, 0>>
    /\ last_mat = [p \in Pos |-> 0]
    /\ T = 0 /\ A = 0 /\ B = -1 /\ rho = 0 /\ it = 0 /\ k = 0
    /\ tol = NaN
    /\ state = "RUNNING"
    /\ err = "none"
    /\ ret = <<>>
    /\ dense_mat = [p \in Pos |-> 0]
    /\ rho0 = 0
    /\ Zbuf = "none" /\ lastbuf = "none"
    /\ steps = <<>>

PsiIdle ==
    psi_pc = "idle" /\ psi_in = <<>> /\ psi_out = <<>> /\ psi_dense = <<>>

SvtIdle ==
    svt_pc = "idle" /\ svt_in = <<>> /\ svt_out = <<>> /\ svt_out2 = <<>>

TenIdle ==
    ten_pc = "idle" /\ ten_in = <<>> /\ ten_mat = <<>> /\ ten_out = <<>>

(* The reference matrix of a call: the observed values, and a value of its *)
(* own at the missing positions (the notebook zeroes data[mask] to get the  *)
(* observed matrix, lines 359-362).                                         *)
GroundTruth(S, M) == [p \in Pos |-> IF p \in M THEN 1 ELSE S[p]]

(* A call of imputer: the arguments, and the locals before line 209. *)
Init ==
    /\ pc = "start"
    /\ sparse_mat \in Mats
    /\ pos_missing \in SUBSET Pos
    /\ time_lags \in LagSeqs(MaxD, MaxLag)
    /\ maxiter \in 0 .. MaxIter
    /\ epsilon \in 0 .. MaxEps
    /\ K \in 1 .. MaxK
    /\ Z = [p \in Pos |-> NaN]
    /\ X = [p \in Pos |-> 0]
    /\ Xat = <<0, 0>>
    /\ last_mat = [p \in Pos |-> 0]
    /\ T = 0
    /\ A = 0
    /\ B = -1
    /\ rho0 \in Rho0s
    /\ rho = 0
    /\ it = 0
    /\ k = 0
    /\ tol = NaN
    /\ state = "RUNNING"
    /\ err = "none"
    /\ ret = <<>>
    /\ dense_mat = GroundTruth(sparse_mat, pos_missing)
    /\ Zbuf = "none" /\ lastbuf = "none"
    /\ steps = <<>>
    /\ PsiIdle /\ SvtIdle /\ TenIdle

(* lines 219-220: Z = sparse_mat.copy(); Z[pos_missing] = the mean *)
InitialZ(S, M) ==
    [p \in Pos |-> IF p \in M THEN MeanNonzero(S) ELSE Val(S[p])]

(* ndarray.copy() returns a new buffer, here named after the variable it   *)
(* is bound to.  CopyAlias hands back the buffer it was asked to copy.      *)
CopyAlias(src, own) == src

Copy(src, own) == own

(* An in-place write to the buffer buf changes the array the caller holds   *)
(* under the name arg when buf is that array.  The entries of this model    *)
(* are integers or nan (read as -1).                                        *)
Entries(Zm) == [p \in Pos |-> IF Zm[p][2] = 0 THEN -1 ELSE Zm[p][1] \div Zm[p][2]]
Through(buf, arg, old, Zm) == IF buf = arg THEN Entries(Zm) ELSE old

(* lines 209-230: everything before the while loop; generate_Psi is called *)
(* at line 222, after T and Z are set up and before last_mat and rho are.  *)
(* del dense_mat (line 216) unbinds the local name only.                   *)
Start ==
    /\ pc = "start"
    /\ Zbuf' = Copy("sparse_mat", "Z")
    /\ Z' = InitialZ(sparse_mat, pos_missing)
    /\ sparse_mat' = Through(Zbuf', "sparse_mat", sparse_mat, Z')
    /\ dense_mat' = Through(Zbuf', "dense_mat", dense_mat, Z')
    /\ IF GeneratePsi(dim[2], time_lags).err # "none"
       THEN /\ pc' = "raised"
            /\ err' = GeneratePsi(dim[2], time_lags).err
            /\ UNCHANGED <<last_mat, lastbuf, rho>>
       ELSE /\ pc' = "build_B"
            /\ err' = err
            /\ last_mat' = sparse_mat'
            /\ lastbuf' = Copy("sparse_mat", "last_mat")
            /\ rho' = rho0
    /\ UNCHANGED <<pos_missing, time_lags, maxiter, epsilon, K, X,
                   Xat, T, A, B, it, k, tol, state, ret, rho0, steps>>
    /\ UNCHANGED <<psivars, svtvars, tenvars>>

(* lines 232-237: B_m = Psi_0 - sum_i A[m, i] Psi_i for every row m *)
BuildB ==
    /\ pc = "build_B"
    /\ B' = A
    /\ k' = 0
    /\ pc' = "rho"
    /\ UNCHANGED <<sparse_mat, pos_missing, time_lags, maxiter, epsilon, K, Z,
                   X, Xat, last_mat, T, A, rho, it, tol, state, err, ret>>
    /\ steps' = <<"B">>
    /\ UNCHANGED <<dense_mat, rho0, Zbuf, lastbuf>>
    /\ UNCHANGED <<psivars, svtvars, tenvars>>

(* line 239 *)
StepRho ==
    /\ pc = "rho"
    /\ rho' = RhoNext(rho)
    /\ pc' = "X"
    /\ UNCHANGED <<sparse_mat, pos_missing, time_lags, maxiter, epsilon, K, Z,
                   X, Xat, last_mat, T, A, B, it, k, tol, state, err, ret>>
    /\ steps' = Append(steps, "rho")
    /\ UNCHANGED <<dense_mat, rho0, Zbuf, lastbuf>>
    /\ UNCHANGED <<psivars, svtvars, tenvars>>

(* line 240: X = svt_tnn(Z - T / rho, 1 / rho, theta); np.linalg.svd raises *)
(* LinAlgError when it does not converge                                    *)
StepX ==
    /\ pc = "X"
    /\ \/ /\ X' \in Mats
          /\ Xat' = <<it + 1, k + 1>>
          /\ pc' = "Z"
          /\ err' = err
          /\ steps' = Append(steps, "X")
       \/ /\ pc' = "raised"
          /\ err' = "LinAlgError"
          /\ UNCHANGED <<X, Xat, steps>>
    /\ UNCHANGED <<sparse_mat, pos_missing, time_lags, maxiter, epsilon, K, Z,
                   last_mat, T, A, B, rho, it, k, tol, state, ret>>
    /\ UNCHANGED <<dense_mat, rho0, Zbuf, lastbuf>>
    /\ UNCHANGED <<psivars, svtvars, tenvars>>

(* lines 241-245: mat holds the row solves; Z[pos_missing] = mat[pos_missing] *)
(* WriteZ committing the whole solve, Z = mat *)
WriteZAll(Zm, mat, M) == [p \in Pos |-> Val(mat[p])]

WriteZ(Zm, mat, M) == [p \in Pos |-> IF p \in M THEN Val(mat[p]) ELSE Zm[p]]

StepZ ==
    /\ pc = "Z"
    /\ \E mat \in Mats : Z' = WriteZ(Z, mat, pos_missing)
    /\ pc' = "T"
    /\ UNCHANGED <<pos_missing, time_lags, maxiter, epsilon, K, X,
                   Xat, last_mat, T, A, B, rho, it, k, tol, state, err, ret>>
    /\ sparse_mat' = Through(Zbuf, "sparse_mat", sparse_mat, Z')
    /\ dense_mat' = Through(Zbuf, "dense_mat", dense_mat, Z')
    /\ steps' = Append(steps, "Z")
    /\ UNCHANGED <<rho0, Zbuf, lastbuf>>
    /\ UNCHANGED <<psivars, svtvars, tenvars>>

(* AfterT leaving the for loop after its first pass *)
AfterTOnce(k1, Kk) == "A"

(* for k in range(K), line 238: the next sub-iteration, or line 247 *)
AfterT(k1, Kk) == IF k1 < Kk THEN "rho" ELSE "A"

(* line 246 and the end of the for loop of line 238 *)
StepT ==
    /\ pc = "T"
    /\ T' = T + 1
    /\ k' = k + 1
    /\ pc' = AfterT(k + 1, K)
    /\ UNCHANGED <<sparse_mat, pos_missing, time_lags, maxiter, epsilon, K, Z,
                   X, Xat, last_mat, A, B, rho, it, tol, state, err, ret>>
    /\ steps' = Append(steps, "T")
    /\ UNCHANGED <<dense_mat, rho0, Zbuf, lastbuf>>
    /\ UNCHANGED <<psivars, svtvars, tenvars>>

(* lines 247-249 *)
EstimateA ==
    /\ pc = "A"
    /\ A' = A + 1
    /\ pc' = "tol"
    /\ UNCHANGED <<sparse_mat, pos_missing, time_lags, maxiter, epsilon, K, Z,
                   X, Xat, last_mat, T, B, rho, it, k, tol, state, err, ret>>
    /\ steps' = Append(steps, "A")
    /\ UNCHANGED <<dense_mat, rho0, Zbuf, lastbuf>>
    /\ UNCHANGED <<psivars, svtvars, tenvars>>

(* lines 250-252 *)
StepTol ==
    /\ pc = "tol"
    /\ tol' = TolOf(X, last_mat, sparse_mat)
    /\ last_mat' = X
    /\ it' = it + 1
    /\ pc' = "check"
    /\ UNCHANGED <<sparse_mat, pos_missing, time_lags, maxiter, epsilon, K, Z,
                   X, Xat, T, A, B, rho, k, state, err, ret>>
    /\ lastbuf' = Copy("X", "last_mat")
    /\ steps' = Append(steps, "tol")
    /\ UNCHANGED <<dense_mat, rho0, Zbuf>>
    /\ UNCHANGED <<psivars, svtvars, tenvars>>

(* lines 259-260 *)
(* Converged without the tol != 0 guard *)
ConvergedNoGuard(t, eps) == TolLess(t, eps)

Converged(t, eps) == TolLess(t, eps) /\ TolNonzero(t)
Exhausted(i, mx) == i >= mx
Break(t, eps, i, mx) == Converged(t, eps) \/ Exhausted(i, mx)

Check ==
    /\ pc = "check"
    /\ IF Break(tol, epsilon, it, maxiter)
       THEN /\ pc' = "exit"
            /\ state' = IF Converged(tol, epsilon) THEN "CONVERGED"
                        ELSE "MAX_ITER_REACHED"
       ELSE /\ pc' = "build_B"
            /\ state' = state
    /\ UNCHANGED <<sparse_mat, pos_missing, time_lags, maxiter, epsilon, K, Z,
                   X, Xat, last_mat, T, A, B, rho, it, k, tol, err, ret>>
    /\ UNCHANGED <<dense_mat, rho0, Zbuf, lastbuf, steps>>
    /\ UNCHANGED <<psivars, svtvars, tenvars>>

(* lines 262-268 *)
(* Returned handing back the working matrix instead of X *)
ReturnedZ(Xm, Zm, Lm) == [p \in Pos |-> Zm[p][1]]

Returned(Xm, Zm, Lm) == Xm

Return ==
    /\ pc = "exit"
    /\ ret' = Returned(X, Z, last_mat)
    /\ pc' = "done"
    /\ UNCHANGED <<sparse_mat, pos_missing, time_lags, maxiter, epsilon, K, Z,
                   X, Xat, last_mat, T, A, B, rho, it, k, tol, state, err>>
    /\ UNCHANGED <<dense_mat, rho0, Zbuf, lastbuf, steps>>
    /\ UNCHANGED <<psivars, svtvars, tenvars>>

----------------------------------------------------------------------------
(* A call of generate_Psi followed by toarray on every operator, as in the  *)
(* example cell (lines 163-177).                                            *)
PsiInit ==
    /\ psi_pc = "call"
    /\ psi_in \in [dim_time : 1 .. MaxT, time_lags : LagSeqs(MaxLags, MaxLag)]
    /\ psi_out = <<>>
    /\ psi_dense = <<>>
    /\ ImputerIdle /\ SvtIdle /\ TenIdle

PsiCall ==
    /\ psi_pc = "call"
    /\ psi_out' = GeneratePsi(psi_in.dim_time, psi_in.time_lags)
    /\ psi_pc' = IF psi_out'.err = "none" THEN "built" ELSE "raised"
    /\ UNCHANGED <<psi_in, psi_dense, ivars, svtvars, tenvars>>

PsiToArray ==
    /\ psi_pc = "built"
    /\ psi_dense' = [i1 \in 1 .. Len(psi_out.Psis) |-> ToArray(psi_out.Psis[i1])]
    /\ psi_pc' = "done"
    /\ UNCHANGED <<psi_in, psi_out, ivars, svtvars, tenvars>>

PsiNext ==
    \/ PsiCall
    \/ PsiToArray

SpecPsi == PsiInit /\ [][PsiNext]_vars

----------------------------------------------------------------------------
(* Two calls of svt_tnn on one matrix with thresholds tau <= tau2. *)
Spectra(len) ==
    {s \in [1 .. len -> 0 .. MaxS] : \A j \in 1 .. len - 1 : s[j] >= s[j + 1]}

SvtInit ==
    /\ svt_pc = "call"
    /\ \E m \in 1 .. MaxDim, n \in 1 .. MaxDim, tau \in 1 .. MaxTau :
         \E s \in Spectra(Min(m, n)), tau2 \in tau .. MaxTau, theta \in 0 .. MaxTheta :
            svt_in = [m |-> m, n |-> n, s |-> s, tau |-> tau, tau2 |-> tau2,
                      theta |-> theta]
    /\ svt_out = <<>>
    /\ svt_out2 = <<>>
    /\ ImputerIdle /\ PsiIdle /\ TenIdle

SvtCall ==
    /\ svt_pc = "call"
    /\ svt_out' = SvtTnn(svt_in.m, svt_in.n, svt_in.s, svt_in.tau, svt_in.theta)
    /\ svt_pc' = "call2"
    /\ UNCHANGED <<svt_in, svt_out2, ivars, psivars, tenvars>>

SvtCall2 ==
    /\ svt_pc = "call2"
    /\ svt_out2' = SvtTnn(svt_in.m, svt_in.n, svt_in.s, svt_in.tau2, svt_in.theta)
    /\ svt_pc' = "done"
    /\ UNCHANGED <<svt_in, svt_out, ivars, psivars, tenvars>>

SvtNext ==
    \/ SvtCall
    \/ SvtCall2

SpecSvt == SvtInit /\ [][SvtNext]_vars

----------------------------------------------------------------------------
(* ten2mat on a tensor, then mat2ten on the result. *)
Shapes == UNION {[1 .. kk -> 1 .. MaxAxis] : kk \in 1 .. MaxOrder}

(* entries all different (fill 0) or alternating 0/1 (fill 1) *)
Tensor(shape, fill) ==
    [shape |-> shape,
     at |-> [i \in Indices(shape) |->
               IF fill = 0 THEN FLin(i, shape) ELSE FLin(i, shape) % 2]]

TenInit ==
    /\ ten_pc = "unfold"
    /\ \E shape \in Shapes, fill \in {0, 1} :
         \E mode \in 0 .. Len(shape) - 1 :
            ten_in = [tensor |-> Tensor(shape, fill), mode |-> mode]
    /\ ten_mat = <<>>
    /\ ten_out = <<>>
    /\ ImputerIdle /\ PsiIdle /\ SvtIdle

TenUnfold ==
    /\ ten_pc = "unfold"
    /\ ten_mat' = ten2mat(ten_in.tensor, ten_in.mode)
    /\ ten_pc' = "fold"
    /\ UNCHANGED <<ten_in, ten_out, ivars, psivars, svtvars>>

TenFold ==
    /\ ten_pc = "fold"
    /\ ten_out' = mat2ten(ten_mat, ten_in.tensor.shape, ten_in.mode)
    /\ ten_pc' = "done"
    /\ UNCHANGED <<ten_in, ten_mat, ivars, psivars, svtvars>>

TenNext ==
    \/ TenUnfold
    \/ TenFold

SpecTen == TenInit /\ [][TenNext]_vars

----------------------------------------------------------------------------
Next ==
    \/ Start
    \/ BuildB
    \/ StepRho
    \/ StepX
    \/ StepZ
    \/ StepT
    \/ EstimateA
    \/ StepTol
    \/ Check
    \/ Return

Spec == Init /\ [][Next]_vars

----------------------------------------------------------------------------
(* Properties of imputer, checked under Spec. *)

Started == pc \notin {"idle", "start"}

(* C1: at every position outside the caller's missing set M the working    *)
(* matrix Z holds the value of the observed matrix S, after any number of   *)
(* inner and outer iterations, and once Z is initialised no step changes Z  *)
(* at a position outside M.                                                 *)
C1_ObservedPreserved ==
    /\ [](Started => \A p \in Pos \ pos_missing : Z[p] = Val(sparse_mat[p]))
    /\ [][Started => \A p \in Pos \ pos_missing : Z'[p] = Z[p]]_vars

(* two outer iterations done, M neither empty nor everything, and the row   *)
(* solves moved a missing entry away from its initial fill                  *)
C1_Witness ==
    /\ pc = "done" /\ it = 2
    /\ pos_missing # {} /\ pos_missing # Pos
    /\ \E p \in pos_missing : Z[p] # InitialZ(sparse_mat, pos_missing)[p]

(* C2: the loop is left at the end of outer iteration it exactly when       *)
(* (tol < epsilon and tol != 0) or it >= maxiter; a run that left it is     *)
(* CONVERGED in the first case and MAX_ITER_REACHED otherwise, and a tol of *)
(* exactly 0 never ends a run as CONVERGED.                                 *)
C2_LoopExit ==
    LET small == TolLess(tol, epsilon) /\ ~(tol[1] = 0 /\ tol[2] > 0)
        leave == small \/ it >= maxiter
    IN  /\ state \in {"RUNNING", "CONVERGED", "MAX_ITER_REACHED"}
        /\ pc \in {"exit", "done"} <=> state # "RUNNING"
        /\ pc \in {"exit", "done"} => leave
        /\ (pc = "build_B" /\ it > 0) => ~leave
        /\ state = "CONVERGED" <=> (pc \in {"exit", "done"} /\ small)
        /\ state = "MAX_ITER_REACHED" => it >= maxiter
        /\ state = "CONVERGED" => ~(tol[1] = 0 /\ tol[2] > 0)

(* a last iteration whose tol is exactly 0, below epsilon, ended the run    *)
(* only because the cap was reached                                         *)
C2_Witness ==
    /\ pc = "done" /\ state = "MAX_ITER_REACHED"
    /\ tol[1] = 0 /\ tol[2] > 0 /\ epsilon > 0
    /\ maxiter = 2 /\ it = 2

(* C3: maxiter is a hard cap for every maxiter >= 0: a run that returns has *)
(* executed at most maxiter outer iterations.                               *)
C3_HardCap == pc = "done" => it <= maxiter

(* C4: a lag greater than or equal to the number of columns makes imputer   *)
(* fail before the first outer iteration starts: no B_m is built and X, Z   *)
(* and T are not updated.                                                   *)
C4_FailFast ==
    SeqMax(time_lags) >= dim[2] =>
        /\ pc \in {"start", "raised"}
        /\ B = -1 /\ Xat = <<0, 0>> /\ T = 0

(* C5: a run that reaches maxiter without tol < epsilon ends normally: it   *)
(* raises nothing and returns the X written by the last inner sub-iteration *)
(* of the last outer iteration.                                             *)
C5_MaxIterReturnsX ==
    /\ state = "MAX_ITER_REACHED" => (pc \in {"exit", "done"} /\ err = "none")
    /\ (pc = "done" /\ state = "MAX_ITER_REACHED") =>
          /\ ret = X
          /\ Xat = <<it, K>>
          /\ it >= maxiter

(* two outer iterations of two sub-iterations, tol not below epsilon, and   *)
(* the returned X differs from the working matrix at a missing position     *)
C5_Witness ==
    /\ pc = "done" /\ state = "MAX_ITER_REACHED"
    /\ ~TolLess(tol, epsilon)
    /\ maxiter = 2 /\ K = 2
    /\ \E p \in pos_missing : Val(ret[p]) # Z[p]

----------------------------------------------------------------------------
(* Properties of generate_Psi, checked under SpecPsi. *)

LagsFit == \A j \in 1 .. Len(psi_in.time_lags) :
               psi_in.time_lags[j] < psi_in.dim_time

SelectedCols(dense) ==
    {rc[2] : rc \in {q \in DOMAIN dense : dense[q] # 0}}

(* C6: for lags that are all smaller than cols, generate_Psi returns d + 1  *)
(* operators of shape (cols - max_lag) x cols, each 0/1 with its single     *)
(* nonzero of row r in column r + max_lag (Psi_0) or r + max_lag - l_i      *)
(* (Psi_i), a column of [0, cols); cols = 5 and L = [1, 3] give the columns *)
(* {3,4}, {2,3} and {0,1}.                                                  *)
C6_PsiSelection ==
    LET lags == psi_in.time_lags
        cols == psi_in.dim_time
        d == Len(lags)
        max_lag == SeqMax(lags)
        n == cols - max_lag
        sel(i, r) == r + max_lag - (IF i = 0 THEN 0 ELSE lags[i])
    IN  /\ (psi_pc # "call" /\ LagsFit) => psi_pc # "raised"
        /\ (psi_pc = "done" /\ LagsFit) =>
              /\ Len(psi_out.Psis) = d + 1
              /\ Len(psi_dense) = d + 1
              /\ \A i \in 0 .. d :
                    /\ psi_out.Psis[i + 1].shape = <<n, cols>>
                    /\ DOMAIN psi_dense[i + 1] = (0 .. n - 1) \X (0 .. cols - 1)
                    /\ \A r \in 0 .. n - 1 :
                          /\ sel(i, r) \in 0 .. cols - 1
                          /\ \A c \in 0 .. cols - 1 :
                                psi_dense[i + 1][<<r, c>>] =
                                    IF c = sel(i, r) THEN 1 ELSE 0
        /\ (psi_pc = "done" /\ cols = 5 /\ lags = <<1, 3>>) =>
              /\ SelectedCols(psi_dense[1]) = {3, 4}
              /\ SelectedCols(psi_dense[2]) = {2, 3}
              /\ SelectedCols(psi_dense[3]) = {0, 1}

(* the example of the notebook, built and made dense *)
C6_Witness ==
    /\ psi_pc = "done"
    /\ psi_in = [dim_time |-> 5, time_lags |-> <<1, 3>>]
    /\ Len(psi_dense) = 3
    /\ psi_dense[3][<<0, 0>>] = 1 /\ psi_dense[1][<<1, 4>>] = 1

----------------------------------------------------------------------------
(* Properties of svt_tnn, checked under SpecSvt. *)

(* C7: on every path the reconstruction uses idx = #{i : s_i > tau} values; *)
(* the first min(theta, idx) are the singular values themselves, the others *)
(* are s_i - tau, all are strictly positive, and the singular values at or  *)
(* below tau are dropped.  theta may exceed idx.                            *)
C7_ThresholdedSpectrum ==
    svt_pc # "call" =>
        LET s == svt_in.s
            tau == svt_in.tau
            theta == svt_in.theta
            idx == Cardinality({j \in 1 .. Len(s) : s[j] > tau})
            out == svt_out.vals
        IN  /\ Len(out) = idx
            /\ \A j \in 1 .. idx :
                  /\ s[j] > tau
                  /\ out[j][2] > 0 /\ out[j][1] > 0
                  /\ j <= Min(theta, idx) => FracEq(out[j], <<s[j], 1>>)
                  /\ j > Min(theta, idx) => FracEq(out[j], <<s[j] - tau, 1>>)
            /\ \A j \in idx + 1 .. Len(s) : s[j] <= tau

(* theta above idx, at least two values kept and at least one dropped *)
C7_Witness ==
    /\ svt_pc = "done"
    /\ svt_in.theta > Len(svt_out.vals)
    /\ Len(svt_out.vals) >= 2
    /\ Len(svt_in.s) > Len(svt_out.vals)

Lopsided == 2 * svt_in.m < svt_in.n \/ svt_in.m > 2 * svt_in.n

(* C8: when one dimension is more than twice the other, svt_tnn takes the   *)
(* Gram branch after at most one transposing call, and reconstructs with    *)
(* the values the direct branch computes from the same s, tau and theta.    *)
C8_GramEqualsDirect ==
    (svt_pc # "call" /\ Lopsided) =>
        LET direct == SvtDirect(svt_in.s, svt_in.tau, svt_in.theta)
            out == svt_out.vals
        IN  /\ svt_out.path \in {<<"gram">>, <<"transpose", "gram">>}
            /\ svt_out.path = <<"gram">> <=> 2 * svt_in.m < svt_in.n
            /\ Len(out) = Len(direct)
            /\ \A j \in 1 .. Len(out) :
                  out[j][2] > 0 /\ FracEq(out[j], direct[j])

(* a tall matrix: one transposing call, then the Gram branch, with kept     *)
(* values on both sides of theta                                            *)
C8_Witness ==
    /\ svt_pc = "done"
    /\ svt_out.path = <<"transpose", "gram">>
    /\ svt_in.theta >= 1
    /\ Len(svt_out.vals) > svt_in.theta

(* C9: with theta fixed and tau <= tau2, the nuclear norm (the sum of the   *)
(* values the result is reconstructed with) of svt_tnn(M, tau2, theta) is   *)
(* at most that of svt_tnn(M, tau, theta).                                  *)
C9_ShrinkageMonotone ==
    svt_pc = "done" => FracLe(FracSum(svt_out2.vals), FracSum(svt_out.vals))

(* a strictly larger threshold gave a strictly smaller, nonzero norm with   *)
(* an unshrunk leading value                                                *)
C9_Witness ==
    /\ svt_pc = "done"
    /\ svt_in.tau < svt_in.tau2
    /\ svt_in.theta >= 1
    /\ Len(svt_out2.vals) >= 1
    /\ ~FracLe(FracSum(svt_out.vals), FracSum(svt_out2.vals))

----------------------------------------------------------------------------
(* Properties of ten2mat and mat2ten, checked under SpecTen. *)

(* C10: folding the unfolding of a tensor along any of its axes gives the   *)
(* tensor back, with its shape and every element.                           *)
C10_FoldUnfold ==
    ten_pc = "done" => ten_out = ten_in.tensor

(* an order-3 tensor with axes of different lengths and distinct entries,   *)
(* unfolded along its middle axis                                           *)
C10_Witness ==
    /\ ten_pc = "done"
    /\ ten_in.mode = 1
    /\ ten_in.tensor.shape = <<2, 3, 2>>
    /\ ten_mat.shape = <<3, 4>>
    /\ ten_in.tensor.at[<<1, 2, 1>>] = 11
    /\ ten_mat.at[<<2, 3>>] = 11

----------------------------------------------------------------------------
(* Further properties of imputer, checked under Spec. *)

(* the mean of the entries of S outside M, nan when there are none *)
MeanObserved(S, M) == <<SumOver(S, Pos \ M), Cardinality(Pos \ M)>>

(* C11: only M decides what is unobserved: the value that fills the missing *)
(* entries of the initial Z is the mean of the entries of S outside M, a 0  *)
(* outside M counting as an observed value and an entry inside M not        *)
(* counting whatever it holds.                                              *)
C11_MissingOnlyFromM ==
    (pc = "build_B" /\ it = 0) =>
        \A p \in pos_missing :
            LET m == MeanObserved(sparse_mat, pos_missing)
            IN  IF m[2] = 0 THEN Z[p][2] = 0 ELSE SameVal(Z[p], m)

(* the steps of one outer iteration with Kk sub-iterations *)
RECURSIVE InnerSteps(_)
InnerSteps(Kk) ==
    IF Kk = 0 THEN <<>> ELSE <<"rho", "X", "Z", "T">> \o InnerSteps(Kk - 1)
OuterSteps(Kk) == <<"B">> \o InnerSteps(Kk) \o <<"A", "tol">>

IsPrefix(q, r) == Len(q) <= Len(r) /\ q = SubSeq(r, 1, Len(q))

(* C12: an outer iteration builds B from the A the previous one left (the   *)
(* random A in the first), then runs K sub-iterations of rho, X, Z, T in    *)
(* that order, then re-estimates A, then computes tol; A is written once    *)
(* per outer iteration and not inside the sub-iterations, and X, Z and T    *)
(* once per sub-iteration.                                                  *)
C12_StepOrder ==
    /\ pc \in {"rho", "X", "Z", "T", "A", "tol", "check"} =>
          IsPrefix(steps, OuterSteps(K))
    /\ pc \in {"rho", "X", "Z", "T", "A"} => (A = it /\ B = it)
    /\ pc \in {"rho", "X", "Z"} => T = it * K + k
    /\ pc = "tol" => (A = it + 1 /\ B = it)
    /\ pc = "check" =>
          /\ steps = OuterSteps(K)
          /\ A = it /\ B = it - 1
          /\ T = it * K
          /\ Xat = <<it, K>>

(* the end of a second outer iteration of two sub-iterations *)
C12_Witness ==
    /\ pc = "check" /\ it = 2 /\ K = 2
    /\ steps = <<"B", "rho", "X", "Z", "T", "rho", "X", "Z", "T", "A", "tol">>
    /\ B = 1 /\ A = 2 /\ T = 4

(* C13: rho is not reset between outer iterations; the rho used by the n-th *)
(* sub-iteration overall is min(rho0 * 1.05^n, 1e5), that is the exponent   *)
(* min(rho0 + n, 0); it is never above the cap and never below the rho the  *)
(* sub-iteration before used.                                               *)
C13_RhoSchedule ==
    /\ [](pc \in {"X", "Z", "T"} =>
            (rho = Min(rho0 + T + 1, 0) /\ rho <= 0))
    /\ [][(pc = "rho" /\ T > 0) => rho' >= rho]_vars
    /\ [][pc \notin {"start", "rho"} => rho' = rho]_vars

(* the fourth sub-iteration overall, in the second outer iteration, uses    *)
(* the cap that a start three steps below it reached one step earlier       *)
C13_Witness ==
    /\ pc = "Z" /\ it = 1 /\ T = 3
    /\ rho0 = -3 /\ rho = 0

(* C14: Z and last_mat are bound to buffers of their own, and the caller's  *)
(* observed matrix and reference matrix never change during a call, so they *)
(* hold at the return what they held at the call.                           *)
C14_InputsUntouched ==
    /\ [](Started => /\ Zbuf \notin {"sparse_mat", "dense_mat"}
                     /\ lastbuf \notin {"sparse_mat", "dense_mat"})
    /\ [][sparse_mat' = sparse_mat /\ dense_mat' = dense_mat]_vars

(* a returned run of two outer iterations that wrote Z and X away from the  *)
(* observed matrix                                                          *)
C14_Witness ==
    /\ pc = "done" /\ it = 2
    /\ Zbuf = "Z" /\ lastbuf = "last_mat"
    /\ \E p \in pos_missing : Z[p] # Val(sparse_mat[p])
    /\ \E p \in Pos : X[p] # sparse_mat[p]
    /\ dense_mat # sparse_mat

=============================================================================
